---- MODULE Spec2Model ----
(***************************************************************************)
(* Model of the Transcripator Telegram bot (src/main.py): the /start       *)
(* handler, the audio pipeline of process_audio with its try / except /    *)
(* finally block, and the pure chunker split_message.                      *)
(*                                                                         *)
(* Texts are TLA+ strings, so lengths, slices and concatenations are the   *)
(* real ones (MAX_MESSAGE_LENGTH is 4096, as in the program).              *)
(***************************************************************************)
EXTENDS Integers, Sequences, FiniteSets, TLC

(***************************************************************************)
(* Program constants                                                       *)
(***************************************************************************)
MAX_FILE_SIZE == 25 * 1024 * 1024

MAX_MESSAGE_LENGTH == 4096

WelcomeText == "Welcome! Send me a voice message or an audio file (up to 25MB), and I'll transcribe, improve, and summarize it for you."

WrongTypeText == "Please send a voice message or an audio file."

OversizeText == "The file is too large. Please send an audio file up to 25MB."

ProcessingText == "Processing your audio. This may take a moment..."

ErrorPrefix == "An error occurred: "

(***************************************************************************)
(* Bounds of the model                                                     *)
(***************************************************************************)
\* updates dispatched to the handlers in one behaviour
MaxUpdates == 2
\* longest text, in whole chunks of MAX_MESSAGE_LENGTH, a remote step returns
MaxFull == 1
\* characters by which a text or a file size may exceed (or miss) a limit
MaxOver == 1
\* longest text given to split_message in the chunker specification
MaxLen == 4
\* largest chunk size given to split_message in the chunker specification
MaxChunk == 3

(***************************************************************************)
(* Helpers                                                                 *)
(***************************************************************************)
Min(a, b) == IF a < b THEN a ELSE b

\* the text of length n made of the repeating pattern "abc": two chunks cut
\* at different offsets differ, so order and content of chunks are visible
RECURSIVE MkText(_)
MkText(n) ==
    IF n = 0 THEN ""
    ELSE IF n = 1 THEN "a"
    ELSE IF n = 2 THEN "ab"
    ELSE IF n % 3 # 0 THEN MkText(n - (n % 3)) \o MkText(n % 3)
    ELSE IF (n \div 3) % 2 = 1 THEN MkText(n - 3) \o "abc"
    ELSE LET h == MkText(n \div 2) IN h \o h

\* every string over {"a","b"} of length at most n
RECURSIVE StringsUpTo(_)
StringsUpTo(n) ==
    IF n = 0 THEN {""}
    ELSE LET S == StringsUpTo(n - 1) IN
         S \cup {t \o c : t \in S, c \in {"a", "b"}}

RECURSIVE Concat(_)
Concat(parts) ==
    IF parts = <<>> THEN "" ELSE Head(parts) \o Concat(Tail(parts))

(***************************************************************************)
(* split_message (src/main.py:36-38)                                       *)
(***************************************************************************)
\* a slice whose end is one character short (off-by-one end)
SliceShort(message, i, j) == SubSeq(message, i + 1, Min(j, Len(message)) - 1)

\* Python's message[i : j] for 0 <= i <= j: the characters at 0-based
\* positions i .. j-1, the end clamped to the length of the message
Slice(message, i, j) == SubSeq(message, i + 1, Min(j, Len(message)))

\* a range that includes its end: i <= len(message) for i < len(message)
RECURSIVE split_from_incl(_, _, _)
split_from_incl(message, max_length, i) ==
    IF i > Len(message) THEN <<>>
    ELSE <<Slice(message, i, i + max_length)>>
             \o split_from_incl(message, max_length, i + max_length)

\* the comprehension over range(i, len(message), max_length)
RECURSIVE split_from(_, _, _)
split_from(message, max_length, i) ==
    IF i >= Len(message) THEN <<>>
    ELSE <<Slice(message, i, i + max_length)>>
             \o split_from(message, max_length, i + max_length)

split_message(message, max_length) == split_from(message, max_length, 0)

(***************************************************************************)
(* Inputs: updates, remote results, failures                               *)
(***************************************************************************)
\* the handler slots: each runs one request at a time
Requests == {"r1", "r2"}

\* file sizes around the limit of line 121
FileSizes == (MAX_FILE_SIZE - MaxOver) .. (MAX_FILE_SIZE + MaxOver)

\* lengths of the texts the remote steps return: empty, one character, and
\* whole chunks with up to MaxOver characters more
TextLens ==
    {0, 1} \cup {k * MAX_MESSAGE_LENGTH + d : k \in 1..MaxFull, d \in 0..MaxOver}

Texts == {MkText(n) : n \in TextLens}

\* raw transcripts (they only feed the prompt of improve_transcription)
RawTexts == {MkText(0), MkText(2)}

\* descriptions str(e) of the exceptions the remote steps raise: short ones,
\* and ones that bring the error text of line 147 to the limit and beyond
ErrLens ==
    {0} \cup {MAX_MESSAGE_LENGTH - Len(ErrorPrefix) + d : d \in 0..MaxOver}

ErrDescs == {MkText(n) : n \in ErrLens}

\* description of the exception a failing platform call raises
PlatformError == "Timed out"

\* file names of audio attachments, chosen by the sender: a plain name and
\* one made of leading dots only, which has no extension
AudioNames == {"note.mp3", "..mp3"}

\* an update: file_size and file_name are optional on the platform, and
\* has_file_size / has_file_name tell whether they are there (None if not)
Message(kind, has_size, size, has_name, name) ==
    [kind |-> kind, has_file_size |-> has_size, file_size |-> size,
     has_file_name |-> has_name, file_name |-> name]

\* incoming updates: a /start command, another command, a text message, a
\* voice note or an audio file
Updates ==
    {Message(k, FALSE, 0, FALSE, "") : k \in {"command", "other_command", "text"}}
    \cup {Message("voice", TRUE, s, FALSE, "") : s \in FileSizes}
    \cup {Message("voice", FALSE, 0, FALSE, "")}
    \cup {Message("audio", TRUE, s, TRUE, n) : s \in FileSizes, n \in AudioNames}
    \cup {Message("audio", TRUE, s, FALSE, "") : s \in FileSizes}

NoUpdate == Message("none", FALSE, 0, FALSE, "")

NoException == [raised |-> FALSE, desc |-> ""]

Exception(d) == [raised |-> TRUE, desc |-> d]

\* a temporary file name: a unique id and the suffix asked for
NoPath == [id |-> 0, suffix |-> ""]

\* str.rfind: the last position up to i where name has the character ch,
\* 0 if there is none
RECURSIVE rfind(_, _, _)
rfind(name, ch, i) ==
    IF i = 0 THEN 0
    ELSE IF SubSeq(name, i, i) = ch THEN i
    ELSE rfind(name, ch, i - 1)

\* os.path.splitext(name)[1]: from the last dot of the last path component
\* on, provided a character other than a dot stands before it in that
\* component; empty otherwise
splitext_ext(name) ==
    LET sepIndex == rfind(name, "/", Len(name))
        dotIndex == rfind(name, ".", Len(name))
    IN  IF /\ dotIndex > sepIndex
           /\ \E k \in (sepIndex + 1)..(dotIndex - 1) : SubSeq(name, k, k) # "."
        THEN SubSeq(name, dotIndex, Len(name))
        ELSE ""

\* the path of a temporary file as text
PathText(path) == "/tmp/tmp" \o ToString(path.id) \o path.suffix

\* the FileNotFoundError open(), os.unlink and NamedTemporaryFile raise
FileNotFound(path) ==
    Exception("[Errno 2] No such file or directory: '" \o PathText(path) \o "'")

\* the TypeError of line 115 when the audio has no file_name
NoFileName == Exception("expected str, bytes or os.PathLike object, not NoneType")

\* the TypeError of line 121 when the file has no file_size
NoFileSize ==
    Exception("'>' not supported between instances of 'NoneType' and 'int'")

\* the text of the reply of line 147
ErrorText(e) == ErrorPrefix \o e.desc

(***************************************************************************)
(* State                                                                   *)
(***************************************************************************)
VARIABLES
    pc,                      \* position of each handler in its code
    update,                  \* the update a handler is processing
    temp_file,               \* name of the NamedTemporaryFile of line 127
    temp_file_path,          \* process_audio's local temp_file_path
    original_transcription,  \* process_audio's local of line 136
    improved_transcription,  \* process_audio's local of line 137
    summary,                 \* process_audio's local of line 142
    parts,                   \* chunks the current for loop has still to send
    caught,                  \* the exception e bound by the except clause
    escaped,                 \* the exception leaving the handler, if any
    log,                     \* per request: platform and remote calls, in order
    storage,                 \* the temporary files that exist on local storage
    temp_counter,            \* temporary files created so far (unique names)
    handled,                 \* updates dispatched so far
    env,                     \* the secrets as os.getenv gives them at startup
    app,                     \* how far the start of the process has come
    handlers,                \* the handlers registered with the application
    split_in,                \* chunker specification: the text
    split_len,               \* chunker specification: the chunk size
    split_out,               \* chunker specification: the result
    split_done               \* chunker specification: split_message has run

reqVars == <<pc, update, temp_file, temp_file_path, original_transcription,
             improved_transcription, summary, parts, caught, escaped, log>>

sysVars == <<storage, temp_counter, handled>>

splitVars == <<split_in, split_len, split_out, split_done>>

startVars == <<env, app, handlers>>

vars == <<reqVars, sysVars, startVars, splitVars>>

\* one entry of a request's log: a reply_text call (op = "reply", kind names
\* the reply, text is what was passed, ok says whether the call returned) or
\* a call of a platform / remote function (op = "call", kind is its name)
Event(op, kind, text, ok) == [op |-> op, kind |-> kind, text |-> text, ok |-> ok]

Append1(r, ev) == [log EXCEPT ![r] = Append(@, ev)]

Append2(r, ev1, ev2) == [log EXCEPT ![r] = Append(Append(@, ev1), ev2)]

InitRequests ==
    /\ pc = [r \in Requests |-> "idle"]
    /\ update = [r \in Requests |-> NoUpdate]
    /\ temp_file = [r \in Requests |-> NoPath]
    /\ temp_file_path = [r \in Requests |-> NoPath]
    /\ original_transcription = [r \in Requests |-> ""]
    /\ improved_transcription = [r \in Requests |-> ""]
    /\ summary = [r \in Requests |-> ""]
    /\ parts = [r \in Requests |-> <<>>]
    /\ caught = [r \in Requests |-> NoException]
    /\ escaped = [r \in Requests |-> NoException]
    /\ log = [r \in Requests |-> <<>>]
    /\ storage = {}
    /\ temp_counter = 0
    /\ handled = 0

\* what os.getenv returns for a secret: None, the empty string, or a value
SecretValues == {"unset", "empty", "set"}

\* the process starts with any combination of the two secrets
InitStartup ==
    /\ env \in [token : SecretValues, key : SecretValues]
    /\ app = "importing"
    /\ handlers = {}

Init ==
    /\ InitRequests
    /\ InitStartup
    /\ split_in = ""
    /\ split_len = 1
    /\ split_out = <<>>
    /\ split_done = FALSE

(***************************************************************************)
(* Start of the process (src/main.py:15-22 and 153-167)                    *)
(***************************************************************************)
\* Python's truth value of a secret: None and "" are false
Truthy(v) == v = "set"

\* lines 16-22: the module body loads the environment, constructs the Groq
\* client with the key and reads the token.  The client library may refuse
\* a key that is None when it is constructed; an empty key is a string and
\* is accepted.
LoadModule ==
    /\ app = "importing"
    /\ \/ app' = "loaded"
       \/ /\ env.key = "unset"
          /\ app' = "import_failed"
    /\ UNCHANGED <<env, handlers, reqVars, sysVars, splitVars>>

\* a startup check that forgets the inference-API key
TokenOnlyOK(e) == Truthy(e.token)

\* lines 155-158: both secrets must be set
SecretsOK(e) == Truthy(e.token) /\ Truthy(e.key)

\* lines 153-167: main raises ValueError when a secret is missing; otherwise
\* it builds the application, registers the two handlers and starts polling
main ==
    /\ app = "loaded"
    /\ IF SecretsOK(env)
       THEN /\ handlers' = {"start", "process_audio"}
            /\ app' = "polling"
       ELSE /\ handlers' = handlers
            /\ app' = "failed"
    /\ UNCHANGED <<env, reqVars, sysVars, splitVars>>

(***************************************************************************)
(* Dispatch of an update to a handler                                      *)
(***************************************************************************)
\* lines 162-165: the handler whose filter matches update u: the /start
\* command goes to start, a message with a voice note or an audio file to
\* process_audio, and nothing else matches a handler
Routed(u) ==
    IF u.kind = "command" THEN "start"
    ELSE IF u.kind \in {"voice", "audio"} THEN "process_audio"
    ELSE "none"

\* a handler is called with update u in the free slot r: its locals are
\* unbound, and it runs up to its first await
Enter(r, u) ==
    /\ pc[r] \in {"idle", "done", "raised"}
    /\ handled < MaxUpdates
    /\ handled' = handled + 1
    /\ pc' = [pc EXCEPT ![r] = IF u.kind = "command" THEN "start" ELSE "validating"]
    /\ update' = [update EXCEPT ![r] = u]
    /\ temp_file' = [temp_file EXCEPT ![r] = NoPath]
    /\ temp_file_path' = [temp_file_path EXCEPT ![r] = NoPath]
    /\ original_transcription' = [original_transcription EXCEPT ![r] = ""]
    /\ improved_transcription' = [improved_transcription EXCEPT ![r] = ""]
    /\ summary' = [summary EXCEPT ![r] = ""]
    /\ parts' = [parts EXCEPT ![r] = <<>>]
    /\ caught' = [caught EXCEPT ![r] = NoException]
    /\ escaped' = [escaped EXCEPT ![r] = NoException]
    /\ log' = [log EXCEPT ![r] = <<>>]
    /\ UNCHANGED <<storage, temp_counter, startVars, splitVars>>

\* The polling application hands update u to the handler its filters select.
Dispatch(r, u) ==
    /\ app = "polling"
    /\ Routed(u) \in handlers
    /\ Enter(r, u)

\* An update no filter matches is dropped: no handler runs, nothing is sent.
Ignore(u) ==
    /\ app = "polling"
    /\ Routed(u) \notin handlers
    /\ handled < MaxUpdates
    /\ handled' = handled + 1
    /\ UNCHANGED <<reqVars, storage, temp_counter, startVars, splitVars>>

\* process_audio called directly with update u, as a caller that holds the
\* function does: no filter stands between the message and the handler
CallProcessAudio(r, u) ==
    /\ u.kind # "command"
    /\ Enter(r, u)

\* what a handler leaves alone besides its position and its log
locals == <<update, temp_file, temp_file_path, original_transcription,
            improved_transcription, summary, parts>>

(***************************************************************************)
(* start (src/main.py:29-33)                                               *)
(***************************************************************************)
\* a start handler that greets twice
startTwice(r) ==
    /\ pc[r] = "start"
    /\ \E ok \in BOOLEAN :
         /\ log' = Append2(r, Event("reply", "welcome", WelcomeText, TRUE),
                              Event("reply", "welcome", WelcomeText, ok))
         /\ pc' = [pc EXCEPT ![r] = IF ok THEN "done" ELSE "raised"]
         /\ escaped' = [escaped EXCEPT ![r] =
                          IF ok THEN NoException ELSE Exception(PlatformError)]
    /\ UNCHANGED <<locals, caught, sysVars, startVars, splitVars>>

start(r) ==
    /\ pc[r] = "start"
    /\ \E ok \in BOOLEAN :
         /\ log' = Append1(r, Event("reply", "welcome", WelcomeText, ok))
         /\ pc' = [pc EXCEPT ![r] = IF ok THEN "done" ELSE "raised"]
         /\ escaped' = [escaped EXCEPT ![r] =
                          IF ok THEN NoException ELSE Exception(PlatformError)]
    /\ UNCHANGED <<locals, caught, sysVars, startVars, splitVars>>

(***************************************************************************)
(* process_audio (src/main.py:105-150)                                     *)
(***************************************************************************)
\* the size test of line 121
TooLarge(file_size) == file_size > MAX_FILE_SIZE

\* a rejection whose return statement is missing: the handler goes on
FallThrough(ok) == IF ok THEN "downloading" ELSE "raised"

\* lines 118-119 and 122-125: reply, then return; a raising reply leaves
\* the handler with its exception
ReturnAfterReply(ok) == IF ok THEN "done" ELSE "raised"

\* file_extension of lines 112 and 115
file_extension(u) ==
    IF u.kind = "voice" THEN ".ogg" ELSE splitext_ext(u.file_name)

\* a fixed file name instead of a fresh one
FixedName(counter, suffix) == [id |-> 1, suffix |-> suffix]

\* line 127: NamedTemporaryFile picks a name no earlier file has, ending in
\* the suffix asked for
TempName(counter, suffix) == [id |-> counter + 1, suffix |-> suffix]

\* whether line 112 or line 115 yields an extension
HasExtension(u) == u.kind = "voice" \/ u.has_file_name

\* lines 107-127, from the call of the handler to its next await: the reply
\* of line 118 for a message without attachment; otherwise get_file returns
\* or raises, the extension and the size are looked at, and the handler
\* goes on to the oversize reply or creates the temporary file
Validate(r) ==
    /\ pc[r] = "validating"
    /\ \/ \* neither voice nor audio: file stays None (lines 117-119)
          /\ update[r].kind \notin {"voice", "audio"}
          /\ \E ok \in BOOLEAN :
               /\ log' = Append1(r, Event("reply", "wrong_type", WrongTypeText, ok))
               /\ pc' = [pc EXCEPT ![r] = ReturnAfterReply(ok)]
               /\ escaped' = [escaped EXCEPT ![r] =
                                IF ok THEN NoException ELSE Exception(PlatformError)]
          /\ UNCHANGED <<temp_file, storage, temp_counter>>
       \/ \* get_file raises (lines 111, 114)
          /\ update[r].kind \in {"voice", "audio"}
          /\ log' = Append1(r, Event("call", "get_file", "", FALSE))
          /\ pc' = [pc EXCEPT ![r] = "raised"]
          /\ escaped' = [escaped EXCEPT ![r] = Exception(PlatformError)]
          /\ UNCHANGED <<temp_file, storage, temp_counter>>
       \/ \* the audio has no file_name: splitext raises (line 115)
          /\ update[r].kind = "audio"
          /\ ~update[r].has_file_name
          /\ log' = Append1(r, Event("call", "get_file", "", TRUE))
          /\ pc' = [pc EXCEPT ![r] = "raised"]
          /\ escaped' = [escaped EXCEPT ![r] = NoFileName]
          /\ UNCHANGED <<temp_file, storage, temp_counter>>
       \/ \* the file has no file_size: the comparison raises (line 121)
          /\ update[r].kind \in {"voice", "audio"}
          /\ HasExtension(update[r])
          /\ ~update[r].has_file_size
          /\ log' = Append1(r, Event("call", "get_file", "", TRUE))
          /\ pc' = [pc EXCEPT ![r] = "raised"]
          /\ escaped' = [escaped EXCEPT ![r] = NoFileSize]
          /\ UNCHANGED <<temp_file, storage, temp_counter>>
       \/ \* too large (line 121): the reply of line 122 is awaited next
          /\ update[r].kind \in {"voice", "audio"}
          /\ HasExtension(update[r])
          /\ update[r].has_file_size
          /\ TooLarge(update[r].file_size)
          /\ log' = Append1(r, Event("call", "get_file", "", TRUE))
          /\ pc' = [pc EXCEPT ![r] = "rejecting"]
          /\ UNCHANGED <<escaped, temp_file, storage, temp_counter>>
       \/ \* accepted: line 127 creates the temporary file (delete=False), or
          \* raises when the temporary directory is not there; the download
          \* of line 128 is awaited next
          /\ update[r].kind \in {"voice", "audio"}
          /\ HasExtension(update[r])
          /\ update[r].has_file_size
          /\ ~TooLarge(update[r].file_size)
          /\ log' = Append1(r, Event("call", "get_file", "", TRUE))
          /\ LET name == TempName(temp_counter, file_extension(update[r])) IN
             \E created \in BOOLEAN :
               IF created
               THEN /\ temp_counter' = temp_counter + 1
                    /\ storage' = storage \cup {name}
                    /\ temp_file' = [temp_file EXCEPT ![r] = name]
                    /\ pc' = [pc EXCEPT ![r] = "downloading"]
                    /\ UNCHANGED escaped
               ELSE /\ pc' = [pc EXCEPT ![r] = "raised"]
                    /\ escaped' = [escaped EXCEPT ![r] = FileNotFound(name)]
                    /\ UNCHANGED <<temp_file, storage, temp_counter>>
    /\ UNCHANGED <<update, temp_file_path, original_transcription,
                   improved_transcription, summary, parts, caught, handled,
                   startVars, splitVars>>

\* lines 122-125: the oversize reply, then return
Reject(r) ==
    /\ pc[r] = "rejecting"
    /\ \E ok \in BOOLEAN :
         /\ log' = Append1(r, Event("reply", "oversize", OversizeText, ok))
         /\ pc' = [pc EXCEPT ![r] = ReturnAfterReply(ok)]
         /\ escaped' = [escaped EXCEPT ![r] =
                          IF ok THEN NoException ELSE Exception(PlatformError)]
    /\ UNCHANGED <<locals, caught, sysVars, startVars, splitVars>>

\* lines 128-129: download_to_drive returns or raises; the with block only
\* closes the file, on either exit, and temp_file_path is bound on return
Download(r) ==
    /\ pc[r] = "downloading"
    /\ \E ok \in BOOLEAN :
         /\ log' = Append1(r, Event("call", "download_to_drive", "", ok))
         /\ temp_file_path' = [temp_file_path EXCEPT ![r] =
                                 IF ok THEN temp_file[r] ELSE @]
         /\ pc' = [pc EXCEPT ![r] = IF ok THEN "notifying" ELSE "raised"]
         /\ escaped' = [escaped EXCEPT ![r] =
                          IF ok THEN NoException ELSE Exception(PlatformError)]
    /\ UNCHANGED <<update, temp_file, original_transcription,
                   improved_transcription, summary, parts, caught, sysVars,
                   startVars, splitVars>>

\* the notice sent before the try block: its exception leaves the handler
NotifyOutside(r) ==
    /\ pc[r] = "notifying"
    /\ \E ok \in BOOLEAN :
         /\ log' = Append1(r, Event("reply", "processing", ProcessingText, ok))
         /\ pc' = [pc EXCEPT ![r] = IF ok THEN "transcribing" ELSE "raised"]
         /\ escaped' = [escaped EXCEPT ![r] =
                          IF ok THEN @ ELSE Exception(PlatformError)]
    /\ UNCHANGED <<locals, caught, sysVars, startVars, splitVars>>

\* lines 132-134: the first statement of the try block
Notify(r) ==
    /\ pc[r] = "notifying"
    /\ \E ok \in BOOLEAN :
         /\ log' = Append1(r, Event("reply", "processing", ProcessingText, ok))
         /\ pc' = [pc EXCEPT ![r] = IF ok THEN "transcribing" ELSE "except"]
         /\ caught' = [caught EXCEPT ![r] =
                         IF ok THEN @ ELSE Exception(PlatformError)]
    /\ UNCHANGED <<locals, escaped, sysVars, startVars, splitVars>>

\* a for loop whose body never runs
ForLoopSkip(chunks, body, after) == after

\* the for statements of lines 139 and 143: the position after evaluating
\* the iterable, in the body when there is a chunk, past the loop otherwise
ForLoop(chunks, body, after) == IF chunks = <<>> THEN after ELSE body

\* truncation instead of splitting: only the first chunk is kept
ChunksTruncated(text) == <<Slice(text, 0, MAX_MESSAGE_LENGTH)>>

\* the chunks of a text as the for loops of lines 139 and 143 iterate them
Chunks(text) == split_message(text, MAX_MESSAGE_LENGTH)

\* line 136 (and 41-50): transcribe_audio opens the temporary file and sends
\* its content to the speech-to-text endpoint
Transcribe(r) ==
    /\ pc[r] = "transcribing"
    /\ \/ \* open() fails: the file is not on storage
          /\ temp_file_path[r] \notin storage
          /\ log' = Append1(r, Event("call", "transcribe_audio", "", FALSE))
          /\ pc' = [pc EXCEPT ![r] = "except"]
          /\ caught' = [caught EXCEPT ![r] = FileNotFound(temp_file_path[r])]
          /\ UNCHANGED original_transcription
       \/ \* the endpoint raises
          /\ temp_file_path[r] \in storage
          /\ \E d \in ErrDescs :
               /\ log' = Append1(r, Event("call", "transcribe_audio", "", FALSE))
               /\ pc' = [pc EXCEPT ![r] = "except"]
               /\ caught' = [caught EXCEPT ![r] = Exception(d)]
               /\ UNCHANGED original_transcription
       \/ \* the endpoint returns a transcript
          /\ temp_file_path[r] \in storage
          /\ \E t \in RawTexts :
               /\ log' = Append1(r, Event("call", "transcribe_audio", "", TRUE))
               /\ pc' = [pc EXCEPT ![r] = "refining"]
               /\ original_transcription' = [original_transcription EXCEPT ![r] = t]
               /\ UNCHANGED caught
    /\ UNCHANGED <<update, temp_file, temp_file_path, improved_transcription,
                   summary, parts, escaped, sysVars, startVars, splitVars>>

\* line 137 (and 53-76), then the split_message call of line 139
Improve(r) ==
    /\ pc[r] = "refining"
    /\ \/ \E d \in ErrDescs :
               /\ log' = Append1(r, Event("call", "improve_transcription", "", FALSE))
               /\ pc' = [pc EXCEPT ![r] = "except"]
               /\ caught' = [caught EXCEPT ![r] = Exception(d)]
               /\ UNCHANGED <<improved_transcription, parts>>
       \/ \E t \in Texts :
               /\ log' = Append1(r, Event("call", "improve_transcription", "", TRUE))
               /\ improved_transcription' = [improved_transcription EXCEPT ![r] = t]
               /\ parts' = [parts EXCEPT ![r] = Chunks(t)]
               /\ pc' = [pc EXCEPT ![r] =
                           ForLoop(Chunks(t), "sending_transcript", "summarizing")]
               /\ UNCHANGED caught
    /\ UNCHANGED <<update, temp_file, temp_file_path, original_transcription,
                   summary, escaped, sysVars, startVars, splitVars>>

\* lines 139-140: one iteration of the loop over the transcript's chunks
SendTranscriptPart(r) ==
    /\ pc[r] = "sending_transcript"
    /\ \E ok \in BOOLEAN :
         /\ log' = Append1(r, Event("reply", "transcript", Head(parts[r]), ok))
         /\ parts' = [parts EXCEPT ![r] = IF ok THEN Tail(@) ELSE @]
         /\ pc' = [pc EXCEPT ![r] =
                     IF ~ok THEN "except"
                     ELSE ForLoop(Tail(parts[r]), "sending_transcript", "summarizing")]
         /\ caught' = [caught EXCEPT ![r] =
                         IF ok THEN @ ELSE Exception(PlatformError)]
    /\ UNCHANGED <<update, temp_file, temp_file_path, original_transcription,
                   improved_transcription, summary, escaped, sysVars, startVars, splitVars>>

\* line 142 (and 79-102), then the split_message call of line 143
Summarize(r) ==
    /\ pc[r] = "summarizing"
    /\ \/ \E d \in ErrDescs :
               /\ log' = Append1(r, Event("call", "generate_summary", "", FALSE))
               /\ pc' = [pc EXCEPT ![r] = "except"]
               /\ caught' = [caught EXCEPT ![r] = Exception(d)]
               /\ UNCHANGED <<summary, parts>>
       \/ \E t \in Texts :
               /\ log' = Append1(r, Event("call", "generate_summary", "", TRUE))
               /\ summary' = [summary EXCEPT ![r] = t]
               /\ parts' = [parts EXCEPT ![r] = Chunks(t)]
               /\ pc' = [pc EXCEPT ![r] =
                           ForLoop(Chunks(t), "sending_summary", "finally")]
               /\ UNCHANGED caught
    /\ UNCHANGED <<update, temp_file, temp_file_path, original_transcription,
                   improved_transcription, escaped, sysVars, startVars, splitVars>>

\* lines 143-144: one iteration of the loop over the summary's chunks
SendSummaryPart(r) ==
    /\ pc[r] = "sending_summary"
    /\ \E ok \in BOOLEAN :
         /\ log' = Append1(r, Event("reply", "summary", Head(parts[r]), ok))
         /\ parts' = [parts EXCEPT ![r] = IF ok THEN Tail(@) ELSE @]
         /\ pc' = [pc EXCEPT ![r] =
                     IF ~ok THEN "except"
                     ELSE ForLoop(Tail(parts[r]), "sending_summary", "finally")]
         /\ caught' = [caught EXCEPT ![r] =
                         IF ok THEN @ ELSE Exception(PlatformError)]
    /\ UNCHANGED <<update, temp_file, temp_file_path, original_transcription,
                   improved_transcription, summary, escaped, sysVars, startVars, splitVars>>

\* an except clause that, after its reply, tries the pipeline again
ExceptRetry(r) ==
    /\ pc[r] = "except"
    /\ \E ok \in BOOLEAN :
         /\ log' = Append1(r, Event("reply", "error", ErrorText(caught[r]), ok))
         /\ escaped' = [escaped EXCEPT ![r] =
                          IF ok THEN NoException ELSE Exception(PlatformError)]
         /\ pc' = [pc EXCEPT ![r] = IF ok THEN "transcribing" ELSE "finally"]
    /\ UNCHANGED <<locals, caught, sysVars, startVars, splitVars>>

\* cleanup written after the try statement instead of in a finally clause:
\* an exception raised in the except clause skips it
ExceptNoFinally(r) ==
    /\ pc[r] = "except"
    /\ \E ok \in BOOLEAN :
         /\ log' = Append1(r, Event("reply", "error", ErrorText(caught[r]), ok))
         /\ escaped' = [escaped EXCEPT ![r] =
                          IF ok THEN NoException ELSE Exception(PlatformError)]
         /\ pc' = [pc EXCEPT ![r] = IF ok THEN "finally" ELSE "raised"]
    /\ UNCHANGED <<locals, caught, sysVars, startVars, splitVars>>

\* lines 146-147: the except clause replies with the exception's description;
\* when that reply raises, the new exception leaves through the finally block
Except(r) ==
    /\ pc[r] = "except"
    /\ \E ok \in BOOLEAN :
         /\ log' = Append1(r, Event("reply", "error", ErrorText(caught[r]), ok))
         /\ escaped' = [escaped EXCEPT ![r] =
                          IF ok THEN NoException ELSE Exception(PlatformError)]
    /\ pc' = [pc EXCEPT ![r] = "finally"]
    /\ UNCHANGED <<locals, caught, sysVars, startVars, splitVars>>

\* a finally block that forgets the unlink
FinallyKeep(r) ==
    /\ pc[r] = "finally"
    /\ pc' = [pc EXCEPT ![r] = IF escaped[r].raised THEN "raised" ELSE "done"]
    /\ UNCHANGED <<locals, caught, escaped, log, sysVars, startVars, splitVars>>

\* lines 149-150: os.unlink(temp_file_path), then the handler returns or the
\* pending exception goes on
Finally(r) ==
    /\ pc[r] = "finally"
    /\ IF temp_file_path[r] \in storage
       THEN /\ storage' = storage \ {temp_file_path[r]}
            /\ pc' = [pc EXCEPT ![r] = IF escaped[r].raised THEN "raised" ELSE "done"]
            /\ UNCHANGED escaped
       ELSE /\ UNCHANGED storage
            /\ pc' = [pc EXCEPT ![r] = "raised"]
            /\ escaped' = [escaped EXCEPT ![r] = FileNotFound(temp_file_path[r])]
    /\ UNCHANGED <<locals, caught, log, temp_counter, handled, startVars, splitVars>>

(***************************************************************************)
(* Specification: the bot handling updates one after another               *)
(***************************************************************************)
SeqRequests == {"r1"}

Next ==
    \/ LoadModule
    \/ main
    \/ \E r \in SeqRequests : \E u \in Updates : Dispatch(r, u)
    \/ \E u \in Updates : Ignore(u)
    \/ \E r \in SeqRequests : start(r)
    \/ \E r \in SeqRequests : Validate(r)
    \/ \E r \in SeqRequests : Reject(r)
    \/ \E r \in SeqRequests : Download(r)
    \/ \E r \in SeqRequests : Notify(r)
    \/ \E r \in SeqRequests : Transcribe(r)
    \/ \E r \in SeqRequests : Improve(r)
    \/ \E r \in SeqRequests : SendTranscriptPart(r)
    \/ \E r \in SeqRequests : Summarize(r)
    \/ \E r \in SeqRequests : SendSummaryPart(r)
    \/ \E r \in SeqRequests : Except(r)
    \/ \E r \in SeqRequests : Finally(r)

Spec == Init /\ [][Next]_vars

(***************************************************************************)
(* Specification: process_audio called directly                            *)
(***************************************************************************)
\* The module is loaded and process_audio is called with any message, also
\* one the filters of main would never hand to it.
HandlerInit ==
    /\ InitRequests
    /\ env = [token |-> "set", key |-> "set"]
    /\ app = "loaded"
    /\ handlers = {}
    /\ split_in = ""
    /\ split_len = 1
    /\ split_out = <<>>
    /\ split_done = FALSE

HandlerNext ==
    \/ \E r \in SeqRequests : \E u \in Updates : CallProcessAudio(r, u)
    \/ \E r \in SeqRequests : Validate(r)
    \/ \E r \in SeqRequests : Reject(r)
    \/ \E r \in SeqRequests : Download(r)
    \/ \E r \in SeqRequests : Notify(r)
    \/ \E r \in SeqRequests : Transcribe(r)
    \/ \E r \in SeqRequests : Improve(r)
    \/ \E r \in SeqRequests : SendTranscriptPart(r)
    \/ \E r \in SeqRequests : Summarize(r)
    \/ \E r \in SeqRequests : SendSummaryPart(r)
    \/ \E r \in SeqRequests : Except(r)
    \/ \E r \in SeqRequests : Finally(r)

HandlerSpec == HandlerInit /\ [][HandlerNext]_vars

(***************************************************************************)
(* Specification of the chunker: split_message applied to bounded inputs   *)
(***************************************************************************)
SplitInit ==
    /\ InitRequests
    /\ env = [token |-> "set", key |-> "set"]
    /\ app = "importing"
    /\ handlers = {}
    /\ split_in \in StringsUpTo(MaxLen)
    /\ split_len \in 1..MaxChunk
    /\ split_out = <<>>
    /\ split_done = FALSE

ApplySplit ==
    /\ ~split_done
    /\ split_out' = split_message(split_in, split_len)
    /\ split_done' = TRUE
    /\ UNCHANGED <<split_in, split_len, reqVars, sysVars, startVars>>

SplitNext == ApplySplit

SplitSpec == SplitInit /\ [][SplitNext]_vars

(***************************************************************************)
(* Specification: two handlers running concurrently                        *)
(***************************************************************************)
\* The event loop may switch between handlers at every await, so the steps
\* of the two requests interleave freely.  To keep the product of the two
\* requests small, the updates and the remote results are drawn from the
\* subsets below.
ConcUpdates ==
    {u \in Updates :
        \/ u.kind \in {"command", "text"}
        \/ u.kind = "voice" /\ u.has_file_size /\ u.file_size >= MAX_FILE_SIZE}

ConcTexts == {MkText(0), MkText(MAX_MESSAGE_LENGTH + 1)}

ConcErrDescs == {MkText(0)}

ConcInputs ==
    \A r \in Requests :
        /\ original_transcription'[r] \in {"", MkText(2)}
        /\ improved_transcription'[r] \in ConcTexts
        /\ summary'[r] \in ConcTexts
        /\ caught'[r].desc \in
             ConcErrDescs \cup {PlatformError, FileNotFound(temp_file_path'[r]).desc}

ConcNext ==
    \/ LoadModule
    \/ main
    \/ \E r \in Requests : \E u \in ConcUpdates : Dispatch(r, u)
    \/ \E u \in ConcUpdates : Ignore(u)
    \/ \E r \in Requests : start(r)
    \/ \E r \in Requests : Validate(r)
    \/ \E r \in Requests : Reject(r)
    \/ \E r \in Requests : Download(r)
    \/ \E r \in Requests : Notify(r)
    \/ \E r \in Requests : Transcribe(r) /\ ConcInputs
    \/ \E r \in Requests : Improve(r) /\ ConcInputs
    \/ \E r \in Requests : SendTranscriptPart(r)
    \/ \E r \in Requests : Summarize(r) /\ ConcInputs
    \/ \E r \in Requests : SendSummaryPart(r)
    \/ \E r \in Requests : Except(r)
    \/ \E r \in Requests : Finally(r)

ConcSpec == Init /\ [][ConcNext]_vars

TypeOK ==
    /\ pc \in [Requests -> {"idle", "start", "validating", "rejecting", "downloading",
                            "notifying", "transcribing", "refining",
                            "sending_transcript", "summarizing",
                            "sending_summary", "except", "finally",
                            "done", "raised"}]
    /\ handled \in 0..MaxUpdates
    /\ temp_counter \in 0..MaxUpdates

(***************************************************************************)
(* Reading a request's log                                                 *)
(***************************************************************************)
Terminal(r) == pc[r] \in {"done", "raised"}

\* the reply_text calls of request r, in order
Replies(r) == SelectSeq(log[r], LAMBDA ev : ev.op = "reply")

\* the reply_text calls of request r of one kind
RepliesOf(r, kind) == SelectSeq(log[r], LAMBDA ev : ev.op = "reply" /\ ev.kind = kind)

\* the calls request r made of a platform or remote function
CallsOf(r, fn) == SelectSeq(log[r], LAMBDA ev : ev.op = "call" /\ ev.kind = fn)

Returned(r, fn) == \E i \in 1..Len(log[r]) : log[r][i] = Event("call", fn, "", TRUE)

Raised(r, fn) == \E i \in 1..Len(log[r]) : log[r][i] = Event("call", fn, "", FALSE)

\* the request created a temporary file
CreatedTemp(r) == temp_file[r] # NoPath

(***************************************************************************)
(* C1 - temporary file removed on every exit path                          *)
(***************************************************************************)
\* C1: whenever a request that created a temporary file has ended (the
\* handler returned or an exception left it), that file is no longer on
\* storage.
C1_TempFileRemovedOnEveryExit ==
    \A r \in Requests :
        (Terminal(r) /\ CreatedTemp(r)) => temp_file[r] \notin storage

(***************************************************************************)
(* C2 - a failing Transcription Step                                       *)
(***************************************************************************)
\* C2: once transcribe_audio has raised in a request, improve_transcription
\* and generate_summary are not invoked in it, and when the request has
\* ended exactly one error reply (the text of line 147, built from the
\* exception raised) was sent and the temporary file is off storage.
C2_TranscribeFailure ==
    \A r \in Requests :
        Raised(r, "transcribe_audio") =>
            /\ CallsOf(r, "improve_transcription") = <<>>
            /\ CallsOf(r, "generate_summary") = <<>>
            /\ Terminal(r) =>
                 /\ Len(RepliesOf(r, "error")) = 1
                 /\ RepliesOf(r, "error")[1].text = ErrorText(caught[r])
                 /\ caught[r].desc \in ErrDescs
                 /\ temp_file[r] \notin storage

C2_Witness ==
    \E r \in Requests :
        /\ pc[r] = "done"
        /\ Raised(r, "transcribe_audio")
        /\ CreatedTemp(r)
        /\ Len(RepliesOf(r, "error")) = 1

(***************************************************************************)
(* C3 - replies of a successful request                                    *)
(***************************************************************************)
\* the kinds of the replies of request r, in order
ReplyKinds(r) == [i \in 1..Len(Replies(r)) |-> Replies(r)[i].kind]

\* <<"processing">>, then n times "transcript", then m times "summary"
Pattern(n, m) ==
    [i \in 1..(1 + n + m) |->
        IF i = 1 THEN "processing"
        ELSE IF i <= 1 + n THEN "transcript" ELSE "summary"]

\* the request was accepted and download, transcription, refinement and
\* summarization all returned; the request has ended
Succeeded(r) ==
    /\ Terminal(r)
    /\ update[r].kind \in {"voice", "audio"}
    /\ update[r].file_size <= MAX_FILE_SIZE
    /\ Returned(r, "download_to_drive")
    /\ Returned(r, "transcribe_audio")
    /\ Returned(r, "improve_transcription")
    /\ Returned(r, "generate_summary")

\* every reply_text call of the request returned
AllDelivered(r) == \A i \in 1..Len(log[r]) : log[r][i].ok \/ log[r][i].op # "reply"

\* number of chunks of MAX_MESSAGE_LENGTH characters a text of length n fills
NumChunks(n) == (n + MAX_MESSAGE_LENGTH - 1) \div MAX_MESSAGE_LENGTH

\* C3 as stated: after a request whose four steps succeeded, the replies are
\* one processing notice, one or more transcript chunks, one or more summary
\* chunks, and the temporary file is off storage.
C3_OneOrMoreChunks ==
    \A r \in Requests :
        Succeeded(r) =>
            /\ \E n \in 1..Len(log[r]) : \E m \in 1..Len(log[r]) :
                   ReplyKinds(r) = Pattern(n, m)
            /\ temp_file[r] \notin storage

\* C3, amended: after a request whose four steps and every reply_text call
\* succeeded, the replies are one processing notice, then as many transcript
\* chunks as the refined transcript fills (none when it is empty), then as
\* many summary chunks as the summary fills (none when it is empty); the
\* handler has returned and the temporary file is off storage.
C3_RepliesOfSuccess ==
    \A r \in Requests :
        (Succeeded(r) /\ AllDelivered(r)) =>
            /\ ReplyKinds(r) = Pattern(NumChunks(Len(improved_transcription[r])),
                                       NumChunks(Len(summary[r])))
            /\ pc[r] = "done"
            /\ temp_file[r] \notin storage

C3_Witness ==
    \E r \in Requests :
        /\ Succeeded(r) /\ AllDelivered(r)
        /\ improved_transcription[r] = ""
        /\ Len(summary[r]) > MAX_MESSAGE_LENGTH
        /\ Len(RepliesOf(r, "summary")) >= 2

(***************************************************************************)
(* C4 - a failing download                                                 *)
(***************************************************************************)
\* C4: when download_to_drive has raised, the request ends in Done-with-error:
\* the handler returns, no exception leaves it, and one error reply was sent.
C4_DownloadFailureAbsorbed ==
    \A r \in Requests :
        (Terminal(r) /\ Raised(r, "download_to_drive")) =>
            /\ pc[r] = "done"
            /\ ~escaped[r].raised
            /\ Len(RepliesOf(r, "error")) = 1

(***************************************************************************)
(* C5 - order of the steps                                                 *)
(***************************************************************************)
IsChunk(ev) == ev.op = "reply" /\ ev.kind \in {"transcript", "summary"}

\* position of the first entry of the log that equals ev, 0 when absent
FirstIndex(r, ev) ==
    IF \E i \in 1..Len(log[r]) : log[r][i] = ev
    THEN CHOOSE i \in 1..Len(log[r]) :
             /\ log[r][i] = ev
             /\ \A j \in 1..(i - 1) : log[r][j] # ev
    ELSE 0

\* after generate_summary raised, nothing happens but the error reply
SummaryErrorGoesToError(r) ==
    LET k == FirstIndex(r, Event("call", "generate_summary", "", FALSE)) IN
    k > 0 =>
        /\ pc[r] \in {"except", "finally", "done", "raised"}
        /\ Len(log[r]) <= k + 1
        /\ \A j \in (k + 1)..Len(log[r]) :
               log[r][j].op = "reply" /\ log[r][j].kind = "error"
        /\ Terminal(r) => Len(log[r]) = k + 1

\* C5 as stated: no transcript chunk and no summary chunk is sent before
\* generate_summary has returned, and an error of generate_summary leads
\* directly to Done-with-error.
C5_DeliverOnlyAfterSummarize ==
    \A r \in Requests :
        /\ \A i \in 1..Len(log[r]) :
               IsChunk(log[r][i]) =>
                   \E j \in 1..(i - 1) :
                       log[r][j] = Event("call", "generate_summary", "", TRUE)
        /\ SummaryErrorGoesToError(r)

\* the entries of the log before position i (all of it when i = 0)
Before(r, i) == IF i = 0 THEN log[r] ELSE SubSeq(log[r], 1, i - 1)

TextsOf(evs, kind) ==
    LET sel == SelectSeq(evs, LAMBDA ev : ev.op = "reply" /\ ev.kind = kind /\ ev.ok)
    IN  [i \in 1..Len(sel) |-> sel[i].text]

\* C5, amended: the order is Transcribe, Refine, deliver the refined
\* transcript, Summarize, deliver the summary. improve_transcription is
\* called only after transcribe_audio returned; a transcript chunk is sent
\* only after improve_transcription returned; generate_summary is called
\* only after improve_transcription returned and every chunk of the refined
\* transcript was sent, and no transcript chunk is sent after that call; a
\* summary chunk is sent only after generate_summary returned; an error of
\* generate_summary leads directly to Done-with-error.
C5_StepOrder ==
    \A r \in Requests :
        /\ \A i \in 1..Len(log[r]) :
               LET ev == log[r][i]
                   prior(fn) == \E j \in 1..(i - 1) : log[r][j] = Event("call", fn, "", TRUE)
               IN
               /\ (ev.op = "call" /\ ev.kind = "improve_transcription")
                      => prior("transcribe_audio")
               /\ (ev.op = "reply" /\ ev.kind = "transcript")
                      => /\ prior("improve_transcription")
                         /\ \A j \in 1..(i - 1) :
                                ~(log[r][j].op = "call" /\ log[r][j].kind = "generate_summary")
               /\ (ev.op = "call" /\ ev.kind = "generate_summary")
                      => /\ prior("improve_transcription")
                         /\ Concat(TextsOf(Before(r, i), "transcript"))
                                = improved_transcription[r]
               /\ (ev.op = "reply" /\ ev.kind = "summary")
                      => prior("generate_summary")
        /\ SummaryErrorGoesToError(r)

C5_Witness ==
    \E r \in Requests :
        /\ pc[r] = "done"
        /\ Raised(r, "generate_summary")
        /\ Len(RepliesOf(r, "transcript")) >= 2
        /\ Len(RepliesOf(r, "error")) = 1

(***************************************************************************)
(* C6 - length of the replies                                              *)
(***************************************************************************)
\* C6: every text passed to reply_text has at most MAX_MESSAGE_LENGTH
\* characters.
C6_RepliesWithinLimit ==
    \A r \in Requests :
        \A i \in 1..Len(log[r]) :
            log[r][i].op = "reply" => Len(log[r][i].text) <= MAX_MESSAGE_LENGTH

(***************************************************************************)
(* C7 - size boundary                                                      *)
(***************************************************************************)
\* the handler has fetched the metadata of an attachment that has a size
\* and has run on from there
PastGetFile(r) ==
    /\ update[r].kind \in {"voice", "audio"}
    /\ update[r].has_file_size
    /\ pc[r] \notin {"idle", "validating"}
    /\ Returned(r, "get_file")

\* what C7 asks of request r
SizeBoundary(r) ==
    /\ update[r].file_size = MAX_FILE_SIZE + 1 =>
         /\ CallsOf(r, "download_to_drive") = <<>>
         /\ ~CreatedTemp(r)
         /\ \/ pc[r] = "rejecting" /\ Len(log[r]) = 1
            \/ /\ Terminal(r)
               /\ Len(log[r]) = 2
               /\ log[r][2].op = "reply"
               /\ log[r][2].kind = "oversize"
               /\ log[r][2].text = OversizeText
    /\ update[r].file_size = MAX_FILE_SIZE =>
         /\ RepliesOf(r, "oversize") = <<>>
         /\ \/ pc[r] = "downloading" /\ temp_file[r] \in storage
            \/ CallsOf(r, "download_to_drive") # <<>> /\ CreatedTemp(r)
            \/ \* line 127 was reached and could not create the file
               /\ pc[r] = "raised"
               /\ \E n \in 1..MaxUpdates :
                    escaped[r] = FileNotFound(TempName(n - 1, file_extension(update[r])))

\* C7: an attachment of MAX_FILE_SIZE + 1 bytes gets the oversize reply and
\* nothing else (no download, no temporary file) and the handler is over
\* after it; an attachment of exactly MAX_FILE_SIZE bytes gets no oversize
\* reply and the handler goes on to the download.
C7_SizeBoundary ==
    \A r \in Requests : PastGetFile(r) => SizeBoundary(r)

\* The boundary itself is where C7 puts it for every attachment whose
\* extension line 112 or 115 can compute (supplementary; C7 fails only for
\* an audio file without file_name).
SizeBoundaryWithExtension ==
    \A r \in Requests :
        (PastGetFile(r) /\ HasExtension(update[r])) => SizeBoundary(r)

SizeBoundaryReached ==
    /\ \E r \in Requests :
         /\ PastGetFile(r)
         /\ update[r].kind = "audio"
         /\ update[r].file_size = MAX_FILE_SIZE
         /\ Returned(r, "download_to_drive")
    /\ handled = MaxUpdates
    /\ storage # {}

(***************************************************************************)
(* C8 - a message with neither a voice note nor an audio file              *)
(***************************************************************************)
\* C8: once process_audio has handled a message with neither voice nor
\* audio, its only effect is one reply with the "please send" text: no
\* platform or remote call, no temporary file, no further reply, and the
\* handler is over.
C8_WrongInputType ==
    \A r \in Requests :
        (update[r].kind \in {"text", "other_command"} /\ pc[r] # "validating") =>
            /\ Terminal(r)
            /\ Len(log[r]) = 1
            /\ log[r][1].op = "reply"
            /\ log[r][1].kind = "wrong_type"
            /\ log[r][1].text = WrongTypeText
            /\ ~CreatedTemp(r)
            /\ temp_file_path[r] = NoPath

C8_Witness ==
    \E r \in Requests :
        /\ update[r].kind = "text"
        /\ pc[r] = "done"
        /\ Replies(r) = <<Event("reply", "wrong_type", WrongTypeText, TRUE)>>

(***************************************************************************)
(* C9, C10 - split_message                                                 *)
(***************************************************************************)
\* C9: the chunks of split_message(T, L), concatenated in order, give T
\* back, and every chunk but the last has exactly L characters (the last
\* has at most L).
C9_SplitRoundTrip ==
    split_done =>
        /\ Concat(split_out) = split_in
        /\ \A k \in 1..Len(split_out) :
               IF k < Len(split_out)
               THEN Len(split_out[k]) = split_len
               ELSE Len(split_out[k]) <= split_len

C9_Witness ==
    /\ split_done
    /\ Len(split_out) >= 2
    /\ Len(split_out[Len(split_out)]) < split_len
    /\ Len(split_in) = MaxLen

\* C10: split_message of the empty text is the empty sequence, and no chunk
\* of a non-empty text is empty.
C10_SplitEmpty ==
    split_done =>
        /\ split_in = "" => split_out = <<>>
        /\ split_in # "" =>
               /\ split_out # <<>>
               /\ \A k \in 1..Len(split_out) : split_out[k] # ""

C10_Witness ==
    /\ split_done
    /\ split_in = ""
    /\ split_out = <<>>
    /\ split_len > 1

(***************************************************************************)
(* C11 - concurrent requests do not affect each other                      *)
(***************************************************************************)
\* the request is inside the try block, before the unlink of line 150
InTry(r) ==
    pc[r] \in {"notifying", "transcribing", "refining", "sending_transcript",
               "summarizing", "sending_summary", "except", "finally"}

\* everything request r owns
Own(r) == <<pc[r], update[r], temp_file[r], temp_file_path[r],
            original_transcription[r], improved_transcription[r], summary[r],
            parts[r], caught[r], escaped[r], log[r]>>

\* no call or reply of the request raised
NothingFailed(r) == \A i \in 1..Len(log[r]) : log[r][i].ok

\* in every state: the temporary files of two requests are distinct, the
\* path a request reads and unlinks is its own file, that file is on storage
\* as long as its owner is downloading into it or is in the try block (no
\* other request removed it),
\* no request fails for a missing file, and a request that ended without a
\* failure of its own has exactly the replies its own texts determine
IsolationInv ==
    /\ \A r1 \in Requests : \A r2 \in Requests \ {r1} :
           (CreatedTemp(r1) /\ CreatedTemp(r2)) => temp_file[r1] # temp_file[r2]
    /\ \A r \in Requests :
           /\ temp_file_path[r] \in {NoPath, temp_file[r]}
           /\ pc[r] = "downloading" => temp_file[r] \in storage
           /\ InTry(r) => temp_file_path[r] \in storage
           /\ caught[r] # FileNotFound(temp_file_path[r])
           /\ escaped[r] # FileNotFound(temp_file_path[r])
           /\ (Terminal(r) /\ NothingFailed(r) /\ Returned(r, "download_to_drive")) =>
                /\ pc[r] = "done"
                /\ ReplyKinds(r) = Pattern(NumChunks(Len(improved_transcription[r])),
                                           NumChunks(Len(summary[r])))
                /\ Concat(TextsOf(log[r], "transcript")) = improved_transcription[r]
                /\ Concat(TextsOf(log[r], "summary")) = summary[r]
                /\ temp_file[r] \notin storage

\* in every step: at most one request moves, a file leaves storage only by
\* the step of the request that created it, and the files of the requests
\* that do not move stay where they are
IsolationStep ==
    /\ \A r1 \in Requests : \A r2 \in Requests \ {r1} :
           Own(r1)' # Own(r1) => Own(r2)' = Own(r2)
    /\ \A f \in storage \ storage' :
           \E r \in Requests : Own(r)' # Own(r) /\ f = temp_file[r] /\ pc[r] = "finally"
    /\ \A r \in Requests :
           (Own(r)' = Own(r) /\ temp_file[r] \in storage) => temp_file[r] \in storage'

\* C11: when two requests run concurrently in any interleaving, each has its
\* own temporary file, no request removes or reads the file of another, and
\* a request that does not fail gets the replies and the outcome its own
\* inputs determine, whatever happens to the other request.
C11_Isolation == [](IsolationInv) /\ [][IsolationStep]_vars

\* one request is delivering its summary while the other, whose step
\* failed, is in its except clause; both temporary files exist
C11_Witness ==
    \E r1 \in Requests : \E r2 \in Requests \ {r1} :
        /\ pc[r1] = "sending_summary"
        /\ NothingFailed(r1)
        /\ pc[r2] = "except"
        /\ temp_file[r1] \in storage
        /\ temp_file[r2] \in storage

(***************************************************************************)
(* C12 - missing secrets                                                   *)
(***************************************************************************)
SecretMissing == env.token # "set" \/ env.key # "set"

\* C12: when the token or the key is absent (unset or empty), the process
\* never serves: once main has run it has raised, no handler is ever
\* registered, polling never starts and no update is ever dispatched to a
\* handler.
C12_MissingSecretIsFatal ==
    SecretMissing =>
        /\ app \in {"importing", "import_failed", "loaded", "failed"}
        /\ handlers = {}
        /\ handled = 0
        /\ \A r \in Requests : pc[r] = "idle" /\ log[r] = <<>>
        /\ storage = {}

\* main has raised for a missing key although the token is set
C12_Witness ==
    /\ app = "failed"
    /\ env.token = "set"
    /\ env.key # "set"

(***************************************************************************)
(* C13 - the /start command                                                *)
(***************************************************************************)
\* C13: whatever happened before, the step of the start handler is exactly
\* one reply_text call with the static welcome string, after which the
\* handler is over; it creates and removes no temporary file, calls no
\* platform or remote function and changes nothing else.
C13_StartStep ==
    \A r \in Requests :
        (pc[r] = "start" /\ pc'[r] # "start") =>
            /\ Len(log'[r]) = 1
            /\ log'[r][1].op = "reply"
            /\ log'[r][1].text = "Welcome! Send me a voice message or an audio file (up to 25MB), and I'll transcribe, improve, and summarize it for you."
            /\ pc'[r] = IF log'[r][1].ok THEN "done" ELSE "raised"
            /\ UNCHANGED <<storage, temp_counter, handled, startVars>>
            /\ UNCHANGED <<update, temp_file, temp_file_path, original_transcription,
                           improved_transcription, summary, parts, caught>>
            /\ temp_file[r] = NoPath

C13_StartRepliesWelcome == [][C13_StartStep]_vars

\* a /start command answered after an earlier request left a temporary file
\* behind
C13_Witness ==
    \E r \in Requests :
        /\ update[r].kind = "command"
        /\ pc[r] = "done"
        /\ Len(log[r]) = 1
        /\ handled >= 2
        /\ storage # {}

(***************************************************************************)
(* C14 - no retries                                                        *)
(***************************************************************************)
RemoteSteps == {"transcribe_audio", "improve_transcription", "generate_summary"}

\* C14: in one request each remote step is called at most once, and after a
\* remote step has raised nothing follows but the one error reply: no remote
\* step is called again, no chunk is sent, and when the request has ended
\* the error reply is the last entry of its log.
C14_NoRetry ==
    \A r \in Requests :
        /\ \A fn \in RemoteSteps : Len(CallsOf(r, fn)) <= 1
        /\ \A i \in 1..Len(log[r]) :
               (log[r][i].op = "call" /\ log[r][i].kind \in RemoteSteps /\ ~log[r][i].ok) =>
                   /\ pc[r] \in {"except", "finally", "done", "raised"}
                   /\ Len(log[r]) <= i + 1
                   /\ Len(log[r]) = i + 1 =>
                        /\ log[r][i + 1].op = "reply"
                        /\ log[r][i + 1].kind = "error"
                   /\ pc[r] # "except" => Len(log[r]) = i + 1

C14_Witness ==
    \E r \in Requests :
        /\ Terminal(r)
        /\ Raised(r, "improve_transcription")
        /\ Len(CallsOf(r, "transcribe_audio")) = 1
        /\ Len(RepliesOf(r, "error")) = 1

(***************************************************************************)
(* C15 - order and content of the replies of a successful request          *)
(***************************************************************************)
\* the k-th chunk of a text, counted from 1
ChunkAt(text, k) ==
    SubSeq(text, (k - 1) * MAX_MESSAGE_LENGTH + 1,
           Min(k * MAX_MESSAGE_LENGTH, Len(text)))

\* the replies of one kind are the chunks of the text, one reply per chunk,
\* in the order of the text
DeliveredInOrder(r, kind, text) ==
    LET sent == TextsOf(log[r], kind) IN
    /\ Len(sent) = NumChunks(Len(text))
    /\ \A k \in 1..Len(sent) : sent[k] = ChunkAt(text, k)
    /\ Concat(sent) = text

\* C15: in a request in which every step and every reply succeeded, the
\* first reply is the processing notice, no summary chunk comes before a
\* transcript chunk, the transcript replies are the chunks of the refined
\* transcript in order (their concatenation is the refined transcript) and
\* the summary replies are the chunks of the summary in order.
C15_DeliveryOrder ==
    \A r \in Requests :
        (Succeeded(r) /\ AllDelivered(r)) =>
            /\ Replies(r)[1] = Event("reply", "processing", ProcessingText, TRUE)
            /\ Len(RepliesOf(r, "processing")) = 1
            /\ \A i \in 1..Len(Replies(r)) : \A j \in 1..Len(Replies(r)) :
                   (Replies(r)[i].kind = "summary" /\ Replies(r)[j].kind = "transcript")
                       => j < i
            /\ DeliveredInOrder(r, "transcript", improved_transcription[r])
            /\ DeliveredInOrder(r, "summary", summary[r])

C15_Witness ==
    \E r \in Requests :
        /\ Succeeded(r) /\ AllDelivered(r)
        /\ Len(RepliesOf(r, "transcript")) >= 2
        /\ Len(RepliesOf(r, "summary")) >= 2

(***************************************************************************)
(* C16 - every request ends                                                *)
(***************************************************************************)
\* the request passed the checks of lines 117-125: its pipeline has started
PipelineStarted(r) ==
    /\ update[r].kind \in {"voice", "audio"}
    /\ Returned(r, "get_file")
    /\ HasExtension(update[r])
    /\ update[r].has_file_size
    /\ ~TooLarge(update[r].file_size)
    /\ pc[r] # "validating"

\* C16, its consequence for the final state: a request whose pipeline has
\* started and whose handler is over is in Done or Done-with-error, that is
\* the handler has returned and no exception has left it; and no step of the
\* pipeline was entered twice (no platform or remote function was called a
\* second time).
C16_EndsInDoneOrDoneWithError ==
    \A r \in Requests :
        PipelineStarted(r) =>
            /\ Terminal(r) => (pc[r] = "done" /\ ~escaped[r].raised)
            /\ \A fn \in RemoteSteps \cup {"get_file", "download_to_drive"} :
                   Len(CallsOf(r, fn)) <= 1

\* The handler itself always ends.  Under weak fairness of the steps of the
\* handlers (every call returns or raises), a request that has been
\* dispatched reaches the end of its handler, by return or by exception.
Fairness ==
    \A r \in SeqRequests :
        /\ WF_vars(start(r)) /\ WF_vars(Validate(r)) /\ WF_vars(Reject(r))
        /\ WF_vars(Download(r))
        /\ WF_vars(Notify(r)) /\ WF_vars(Transcribe(r)) /\ WF_vars(Improve(r))
        /\ WF_vars(SendTranscriptPart(r)) /\ WF_vars(Summarize(r))
        /\ WF_vars(SendSummaryPart(r)) /\ WF_vars(Except(r)) /\ WF_vars(Finally(r))

LiveSpec == Init /\ [][Next]_vars /\ Fairness

Termination ==
    \A r \in SeqRequests : (pc[r] \notin {"idle", "done", "raised"}) ~> Terminal(r)

(***************************************************************************)
(* C17 - cleanup when the error reply raises                               *)
(***************************************************************************)
\* the reply of the except clause raised
ErrorReplyRaised(r) ==
    \E i \in 1..Len(log[r]) :
        log[r][i].op = "reply" /\ log[r][i].kind = "error" /\ ~log[r][i].ok

\* C17: once the download has completed, the end of the handler finds the
\* temporary file removed; when the reply of the except clause raised, the
\* finally block still runs: the exception is pending until the file is
\* unlinked and then leaves the handler.
C17_CleanupWhenErrorReplyRaises ==
    \A r \in Requests :
        /\ (Returned(r, "download_to_drive") /\ Terminal(r)) =>
               temp_file[r] \notin storage
        /\ ErrorReplyRaised(r) =>
               /\ Returned(r, "download_to_drive")
               /\ temp_file_path[r] = temp_file[r]
               /\ escaped[r] = Exception(PlatformError)
               /\ pc[r] \in {"finally", "raised"}
               /\ pc[r] = "finally" => temp_file[r] \in storage
               /\ pc[r] = "raised" => temp_file[r] \notin storage

C17_Witness ==
    \E r \in Requests :
        /\ ErrorReplyRaised(r)
        /\ pc[r] = "raised"
        /\ CreatedTemp(r)
        /\ temp_file[r] \notin storage

(***************************************************************************)
(* C18 - the failure boundary covers delivery                              *)
(***************************************************************************)
\* C18: when the reply_text call of the processing notice or of a chunk
\* raises, the only thing that follows is one error reply carrying the
\* description of that exception: no later chunk is sent and no remote step
\* is called afterwards (none at all after a failing notice, no
\* generate_summary after a failing transcript chunk), and the handler ends
\* with the temporary file removed.
C18_DeliveryFailure ==
    \A r \in Requests :
        \A i \in 1..Len(log[r]) :
            (/\ log[r][i].op = "reply"
             /\ log[r][i].kind \in {"processing", "transcript", "summary"}
             /\ ~log[r][i].ok) =>
                /\ pc[r] \in {"except", "finally", "done", "raised"}
                /\ Len(log[r]) <= i + 1
                /\ Len(log[r]) = i + 1 =>
                     /\ log[r][i + 1].op = "reply"
                     /\ log[r][i + 1].kind = "error"
                     /\ log[r][i + 1].text = "An error occurred: Timed out"
                /\ pc[r] # "except" => Len(log[r]) = i + 1
                /\ Terminal(r) => temp_file[r] \notin storage
                /\ log[r][i].kind = "processing" =>
                     \A fn \in RemoteSteps : CallsOf(r, fn) = <<>>
                /\ log[r][i].kind = "transcript" =>
                     CallsOf(r, "generate_summary") = <<>>

\* the first of two transcript chunks could not be sent
C18_Witness ==
    \E r \in Requests :
        /\ Terminal(r)
        /\ Len(improved_transcription[r]) > MAX_MESSAGE_LENGTH
        /\ RepliesOf(r, "transcript") =
               <<Event("reply", "transcript",
                       ChunkAt(improved_transcription[r], 1), FALSE)>>
        /\ Len(RepliesOf(r, "error")) = 1
        /\ CallsOf(r, "generate_summary") = <<>>

====
